---- MODULE Spec2Model ----
(***************************************************************************)
(* Model of the vectorised CSV type inference and cell validation engine   *)
(* of Data_analyst_report_maker: app/csv_validator.py (PolarsCSVValidator, *)
(* validate_csv_file, validate_dataframe) and app/csv_analyzer.py          *)
(* (analyze_csv_metadata).                                                 *)
(*                                                                         *)
(* Strings are sequences of one-character strings, so that trimming,       *)
(* comma removal, lower-casing, the date regular expressions and the       *)
(* numeric casts are computed character by character.  A cell is Null or   *)
(* Some(s).  The column engine is the Polars API the code is written       *)
(* against: every Series method the code calls exists and does what its    *)
(* name says (str.strip trims whitespace, arg_false is the complement of   *)
(* arg_true), and the .str namespace raises on a column that is not Utf8.  *)
(***************************************************************************)
EXTENDS Integers, Sequences, FiniteSets, TLC

VARIABLES
    df,             \* validate_dataframe: the table being validated
    expected_types, \* validate_dataframe: the caller's expected_types argument
    report,         \* validate_dataframe: the returned report
    col_series,     \* inference: the column handed to the inferrers
    inferred,       \* inference: result of _infer_column_types_vectorized
    meta_inferred,  \* inference: inferred_types entry of analyze_csv_metadata
    fs,             \* files on disk: path -> file
    calls,          \* history of validate_csv_file calls
    file_paths,     \* analyze_csv_metadata: the requested batch
    metadata        \* analyze_csv_metadata: the returned metadata

vars == <<df, expected_types, report, col_series, inferred, meta_inferred,
          fs, calls, file_paths, metadata>>

(***************************************************************************)
(* Bounds of the model.                                                    *)
(***************************************************************************)
MaxRows == 3        \* rows of a validated one-column table
WideRows == 2       \* rows of a validated table of several columns
MaxCols == 2        \* columns of a validated table
MaxRun == 11        \* longest run of equal cells in an inferred column
MaxCalls == 2       \* validate_csv_file calls recorded
MaxBatch == 2       \* paths in one analyze_csv_metadata request
MaxTail == 2        \* values of a column after the values that are sampled

(***************************************************************************)
(* Cells and strings.                                                      *)
(***************************************************************************)
Null == <<>>
Some(s) == <<s>>
IsNull(c) == c = Null
Val(c) == c[1]

Digits == {"0", "1", "2", "3", "4", "5", "6", "7", "8", "9"}
Whitespace == {" ", "\t", "\n", "\r"}
UpperCase == <<"A", "B", "C", "D", "E", "F", "G", "H", "I", "J", "K", "L", "M",
               "N", "O", "P", "Q", "R", "S", "T", "U", "V", "W", "X", "Y", "Z">>
LowerCase == <<"a", "b", "c", "d", "e", "f", "g", "h", "i", "j", "k", "l", "m",
               "n", "o", "p", "q", "r", "s", "t", "u", "v", "w", "x", "y", "z">>

IsDigits(s) == \A i \in 1..Len(s) : s[i] \in Digits

\* Series.str.replace_all(ch, "")
replace_all(s, ch) == SelectSeq(s, LAMBDA c : c # ch)

\* cleaned = series.str.replace_all(",", "").str.replace_all(" ", "")
Cleaned(s) == replace_all(replace_all(s, ","), " ")

RECURSIVE StripLeft(_)
StripLeft(s) ==
    IF s # <<>> /\ Head(s) \in Whitespace THEN StripLeft(Tail(s)) ELSE s

RECURSIVE StripRight(_)
StripRight(s) ==
    IF s # <<>> /\ s[Len(s)] \in Whitespace
    THEN StripRight(SubSeq(s, 1, Len(s) - 1)) ELSE s

\* Series.str.strip()
str_strip(s) == StripRight(StripLeft(s))

LowerChar(c) ==
    IF \E i \in 1..Len(UpperCase) : UpperCase[i] = c
    THEN LowerCase[CHOOSE i \in 1..Len(UpperCase) : UpperCase[i] = c]
    ELSE c

\* Series.str.to_lowercase()
to_lowercase(s) == [i \in 1..Len(s) |-> LowerChar(s[i])]

(***************************************************************************)
(* self.date_patterns: "d" stands for \d, any other token for itself.  The *)
(* patterns are anchored (^...$), so str.contains is a whole-string match. *)
(***************************************************************************)
date_patterns ==
    << <<"d", "d", "d", "d", "-", "d", "d", "-", "d", "d">>,   \* YYYY-MM-DD
       <<"d", "d", "/", "d", "d", "/", "d", "d", "d", "d">>,   \* MM/DD/YYYY
       <<"d", "d", "-", "d", "d", "-", "d", "d", "d", "d">>,   \* MM-DD-YYYY
       <<"d", "d", "d", "d", "/", "d", "d", "/", "d", "d">> >> \* YYYY/MM/DD

MatchesPattern(s, pat) ==
    /\ Len(s) = Len(pat)
    /\ \A i \in 1..Len(pat) :
          IF pat[i] = "d" THEN s[i] \in Digits ELSE s[i] = pat[i]

\* str.contains("|".join(f"({pattern})" for pattern in self.date_patterns))
MatchesDate(s) == \E k \in 1..Len(date_patterns) : MatchesPattern(s, date_patterns[k])

(***************************************************************************)
(* cast(pl.Int64, strict=False) and cast(pl.Float64, strict=False) of a    *)
(* string: TRUE when the cast yields a value, FALSE when it yields null.   *)
(***************************************************************************)
Unsigned(s) == IF s # <<>> /\ Head(s) \in {"-", "+"} THEN Tail(s) ELSE s

RECURSIVE StripZeros(_)
StripZeros(s) ==
    IF Len(s) > 1 /\ Head(s) = "0" THEN StripZeros(Tail(s)) ELSE s

DigitVal(c) == CHOOSE n \in 0..9 : <<"0", "1", "2", "3", "4", "5", "6", "7", "8", "9">>[n + 1] = c

\* digits of 2^63 - 1
I64Max == <<"9", "2", "2", "3", "3", "7", "2", "0", "3", "6", "8", "5", "4", "7", "7", "5", "8", "0", "7">>

RECURSIVE LexLeq(_, _)
LexLeq(a, b) ==
    IF a = <<>> THEN TRUE
    ELSE IF DigitVal(Head(a)) # DigitVal(Head(b))
         THEN DigitVal(Head(a)) < DigitVal(Head(b))
         ELSE LexLeq(Tail(a), Tail(b))

FitsI64(digits) ==
    LET d == StripZeros(digits)
    IN  \/ Len(d) < Len(I64Max)
        \/ Len(d) = Len(I64Max) /\ LexLeq(d, I64Max)

ParsesInt(s) ==
    LET d == Unsigned(s)
    IN  d # <<>> /\ IsDigits(d) /\ FitsI64(d)

FirstIndex(s, set) ==
    IF \E i \in 1..Len(s) : s[i] \in set
    THEN CHOOSE i \in 1..Len(s) : s[i] \in set /\ \A j \in 1..(i - 1) : s[j] \notin set
    ELSE 0

IsMantissa(m) ==
    LET dots == Len(SelectSeq(m, LAMBDA c : c = "."))
    IN  /\ dots <= 1
        /\ IsDigits(SelectSeq(m, LAMBDA c : c # "."))
        /\ Len(m) > dots

IsExponent(e) ==
    LET d == Unsigned(e) IN d # <<>> /\ IsDigits(d)

ParsesFloat(s) ==
    LET body == Unsigned(s)
        e == FirstIndex(body, {"e", "E"})
    IN  \/ to_lowercase(body) \in {<<"i", "n", "f">>, <<"n", "a", "n">>,
                                   <<"i", "n", "f", "i", "n", "i", "t", "y">>}
        \/ e = 0 /\ IsMantissa(body)
        \/ e > 0 /\ IsMantissa(SubSeq(body, 1, e - 1))
                 /\ IsExponent(SubSeq(body, e + 1, Len(body)))

(***************************************************************************)
(* Series and exceptions.  A series is [dtype, values]; positions are      *)
(* 0-based as in Polars, so position i of a series is values[i + 1].       *)
(* An operation that can raise returns Ok(v) or Raised(message).           *)
(***************************************************************************)
Ok(v) == [ok |-> v]
Raised(msg) == [raised |-> msg]
IsRaised(r) == "raised" \in DOMAIN r

Min(a, b) == IF a < b THEN a ELSE b

\* a drop of every value the validator calls missing: nulls and
\* whitespace-only strings
drop_missing(values) ==
    SelectSeq(values, LAMBDA c : ~IsNull(c) /\ str_strip(Val(c)) # <<>>)

\* Series.drop_nulls()
drop_nulls(values) == SelectSeq(values, LAMBDA c : ~IsNull(c))

\* Series.head(n)
head(values, n) == SubSeq(values, 1, Min(n, Len(values)))

Positions(n) == [i \in 1..n |-> i - 1]

\* mask.arg_true() / mask.arg_false(): ascending 0-based positions
arg_true(mask) == SelectSeq(Positions(Len(mask)), LAMBDA i : mask[i + 1])
arg_false(mask) == SelectSeq(Positions(Len(mask)), LAMBDA i : ~mask[i + 1])

\* Series.filter(mask)
filter(values, mask) ==
    LET keep == arg_true(mask) IN [k \in 1..Len(keep) |-> values[keep[k] + 1]]

\* number of TRUE entries of a mask (Series.sum() of a boolean series)
CountTrue(mask) == Len(arg_true(mask))

\* Series.n_unique(): null counts as one value
n_unique(values) == Cardinality({values[i] : i \in 1..Len(values)})

(***************************************************************************)
(* Type inference.                                                         *)
(***************************************************************************)
SAMPLE_ROWS == 1000
IntegerDtypes == {"Int8", "Int16", "Int32", "Int64", "UInt8", "UInt16", "UInt32", "UInt64"}
FloatDtypes == {"Float32", "Float64"}

\* the string inferrer without the len(non_null) == 0 return
infer_string_type_unguarded(values) ==
    LET sample == head(drop_nulls(values), SAMPLE_ROWS)
        date_matches == CountTrue([i \in 1..Len(sample) |-> MatchesDate(Val(sample[i]))])
        non_null_numeric == CountTrue([i \in 1..Len(sample) |-> ParsesFloat(Cleaned(Val(sample[i])))])
    IN  IF 10 * date_matches >= 6 * Len(sample) THEN "date_string"
        ELSE IF 10 * non_null_numeric >= 8 * Len(sample) THEN "numeric_string"
        ELSE "text"

\* the string inferrer with a strict date threshold (date_matches > 60%)
infer_string_type_strict_date(values) ==
    LET sample == head(drop_nulls(values), SAMPLE_ROWS)
        date_matches == CountTrue([i \in 1..Len(sample) |-> MatchesDate(Val(sample[i]))])
        non_null_numeric == CountTrue([i \in 1..Len(sample) |-> ParsesFloat(Cleaned(Val(sample[i])))])
    IN  IF Len(sample) = 0 THEN "text"
        ELSE IF 10 * date_matches > 6 * Len(sample) THEN "date_string"
        ELSE IF 10 * non_null_numeric >= 8 * Len(sample) THEN "numeric_string"
        ELSE "text"

\* the string inferrer with a strict numeric threshold (parsed > 80%)
infer_string_type_strict_numeric(values) ==
    LET sample == head(drop_nulls(values), SAMPLE_ROWS)
        date_matches == CountTrue([i \in 1..Len(sample) |-> MatchesDate(Val(sample[i]))])
        non_null_numeric == CountTrue([i \in 1..Len(sample) |-> ParsesFloat(Cleaned(Val(sample[i])))])
    IN  IF Len(sample) = 0 THEN "text"
        ELSE IF 10 * date_matches >= 6 * Len(sample) THEN "date_string"
        ELSE IF 10 * non_null_numeric > 8 * Len(sample) THEN "numeric_string"
        ELSE "text"

\* the string inferrer on every non-null value of the column
infer_string_type_unsampled(values) ==
    LET sample == drop_nulls(values)
        date_matches == CountTrue([i \in 1..Len(sample) |-> MatchesDate(Val(sample[i]))])
        non_null_numeric == CountTrue([i \in 1..Len(sample) |-> ParsesFloat(Cleaned(Val(sample[i])))])
    IN  IF Len(sample) = 0 THEN "text"
        ELSE IF 10 * date_matches >= 6 * Len(sample) THEN "date_string"
        ELSE IF 10 * non_null_numeric >= 8 * Len(sample) THEN "numeric_string"
        ELSE "text"

\* PolarsCSVValidator._infer_string_type_vectorized.  The float comparisons
\* k >= n * 0.6 and k >= n * 0.8 agree with 10k >= 6n and 10k >= 8n for
\* every n <= 1000.
infer_string_type_vectorized(values) ==
    LET non_null == drop_nulls(values)
        sample == head(non_null, Min(SAMPLE_ROWS, Len(non_null)))
        date_matches == CountTrue([i \in 1..Len(sample) |-> MatchesDate(Val(sample[i]))])
        numeric_test == [i \in 1..Len(sample) |-> ParsesFloat(Cleaned(Val(sample[i])))]
        non_null_numeric == CountTrue(numeric_test)
    IN  IF Len(non_null) = 0 THEN "text"
        ELSE IF 10 * date_matches >= 6 * Len(sample) THEN "date_string"
        ELSE IF 10 * non_null_numeric >= 8 * Len(sample) THEN "numeric_string"
        ELSE "text"

\* one iteration of the loop of _infer_column_types_vectorized
infer_dtype(series) ==
    IF series.dtype \in IntegerDtypes THEN "integer"
    ELSE IF series.dtype \in FloatDtypes THEN "float"
    ELSE IF series.dtype \in {"Date", "Datetime"} THEN "datetime"
    ELSE IF series.dtype = "Boolean" THEN "boolean"
    ELSE IF series.dtype = "Utf8" THEN infer_string_type_vectorized(series.values)
    ELSE "text"

Names(frame) == {frame[k].name : k \in 1..Len(frame)}
Column(frame, name) == frame[CHOOSE k \in 1..Len(frame) : frame[k].name = name]

\* PolarsCSVValidator._infer_column_types_vectorized
infer_column_types_vectorized(frame) ==
    [name \in Names(frame) |-> infer_dtype(Column(frame, name))]

\* analyze_csv_metadata, "Improved type detection" of one column: the type,
\* or the ZeroDivisionError of unique_count / len(col_data) on a column
\* without rows
analyzer_infer(series) ==
    IF series.dtype \in IntegerDtypes THEN Ok("integer")
    ELSE IF series.dtype \in FloatDtypes THEN Ok("float")
    ELSE IF series.dtype \in {"Date", "Datetime", "Time"} THEN Ok("datetime")
    ELSE IF series.dtype = "Boolean" THEN Ok("boolean")
    ELSE IF series.dtype = "Utf8"
         THEN LET unique_count == n_unique(series.values)
              IN  IF Len(series.values) = 0 THEN Raised("division by zero")
                  ELSE IF 10 * unique_count < Len(series.values) /\ unique_count < 50
                       THEN Ok("categorical")
                       ELSE Ok("text")
    ELSE Ok("text")

(***************************************************************************)
(* Cell validator.  A violation record is [row, column, value, error];     *)
(* value is the rendered string str(series[i]).                            *)
(***************************************************************************)
Cell(row, column, value, error) ==
    [row |-> row, column |-> column, value |-> value, error |-> error]

\* the loop shared by the typed validators: one record per position of
\* invalid_mask.arg_true(), guarded by i < len(series) and i < len(indices)
InvalidCells(series, indices, column, invalid_mask, error) ==
    LET invalid_indices ==
            SelectSeq(arg_true(invalid_mask),
                      LAMBDA i : i < Len(series) /\ i < Len(indices))
    IN  [k \in 1..Len(invalid_indices) |->
            Cell(indices[invalid_indices[k] + 1] + 2, column,
                 series[invalid_indices[k] + 1], error)]

\* the integer check on the raw text, commas and spaces kept
validate_integer_uncleaned(series, indices, column) ==
    LET invalid_mask == [i \in 1..Len(series) |-> ~ParsesInt(series[i])]
    IN  InvalidCells(series, indices, column, invalid_mask, "Expected integer")

\* PolarsCSVValidator._validate_integer_vectorized
validate_integer_vectorized(series, indices, column) ==
    LET invalid_mask == [i \in 1..Len(series) |-> ~ParsesInt(Cleaned(series[i]))]
    IN  InvalidCells(series, indices, column, invalid_mask, "Expected integer")

\* PolarsCSVValidator._validate_float_vectorized
validate_float_vectorized(series, indices, column) ==
    LET invalid_mask == [i \in 1..Len(series) |-> ~ParsesFloat(Cleaned(series[i]))]
    IN  InvalidCells(series, indices, column, invalid_mask, "Expected number")

valid_bools ==
    { <<"t", "r", "u", "e">>, <<"f", "a", "l", "s", "e">>, <<"1">>, <<"0">>,
      <<"y", "e", "s">>, <<"n", "o">>, <<"y">>, <<"n">> }

\* the boolean check without lower-casing
validate_boolean_case_sensitive(series, indices, column) ==
    LET invalid_mask == [i \in 1..Len(series) |-> series[i] \notin valid_bools]
    IN  InvalidCells(series, indices, column, invalid_mask,
                     "Expected boolean (true/false, 1/0, yes/no)")

\* PolarsCSVValidator._validate_boolean_vectorized
validate_boolean_vectorized(series, indices, column) ==
    LET invalid_mask == [i \in 1..Len(series) |-> to_lowercase(series[i]) \notin valid_bools]
    IN  InvalidCells(series, indices, column, invalid_mask,
                     "Expected boolean (true/false, 1/0, yes/no)")

\* the date check with the first pattern only
validate_date_string_iso_only(series, indices, column) ==
    LET format_invalid_mask ==
            [i \in 1..Len(series) |-> ~MatchesPattern(series[i], date_patterns[1])]
    IN  InvalidCells(series, indices, column, format_invalid_mask,
                     "Invalid date format (expected YYYY-MM-DD, MM/DD/YYYY, etc.)")

\* PolarsCSVValidator._validate_date_string_vectorized
validate_date_string_vectorized(series, indices, column) ==
    LET format_invalid_mask == [i \in 1..Len(series) |-> ~MatchesDate(series[i])]
    IN  InvalidCells(series, indices, column, format_invalid_mask,
                     "Invalid date format (expected YYYY-MM-DD, MM/DD/YYYY, etc.)")

\* PolarsCSVValidator._validate_numeric_string_vectorized
validate_numeric_string_vectorized(series, indices, column) ==
    validate_float_vectorized(series, indices, column)

RECURSIVE Number(_)
Number(digits) ==
    IF digits = <<>> THEN 0
    ELSE 10 * Number(SubSeq(digits, 1, Len(digits) - 1)) + DigitVal(digits[Len(digits)])

DaysIn(year, month) ==
    IF month \in {4, 6, 9, 11} THEN 30
    ELSE IF month = 2
         THEN IF (year % 4 = 0 /\ year % 100 # 0) \/ year % 400 = 0 THEN 29 ELSE 28
         ELSE 31

\* str.strptime(pl.Datetime, "%Y-%m-%d", strict=False): TRUE when a value results
ParsesYmd(s) ==
    /\ MatchesPattern(s, date_patterns[1])
    /\ LET year == Number(SubSeq(s, 1, 4))
           month == Number(SubSeq(s, 6, 7))
           day == Number(SubSeq(s, 9, 10))
       IN  month \in 1..12 /\ day \in 1..DaysIn(year, month)

\* a datetime validator that checks nothing
validate_datetime_unchecked(series, indices, column) == <<>>

\* PolarsCSVValidator._validate_datetime_vectorized, on a series whose dtype
\* is not Date or Datetime
validate_datetime_vectorized(series, indices, column) ==
    LET invalid_mask == [i \in 1..Len(series) |-> ~ParsesYmd(series[i])]
    IN  InvalidCells(series, indices, column, invalid_mask, "Expected datetime")

\* a dispatch that rejects the values of the types it has no validator for
validate_type_closed(series, indices, column, expected_type) ==
    IF expected_type = "integer" THEN validate_integer_vectorized(series, indices, column)
    ELSE IF expected_type = "float" THEN validate_float_vectorized(series, indices, column)
    ELSE IF expected_type = "boolean" THEN validate_boolean_vectorized(series, indices, column)
    ELSE IF expected_type = "date_string" THEN validate_date_string_vectorized(series, indices, column)
    ELSE IF expected_type = "numeric_string" THEN validate_numeric_string_vectorized(series, indices, column)
    ELSE IF expected_type = "datetime" THEN validate_datetime_vectorized(series, indices, column)
    ELSE InvalidCells(series, indices, column, [i \in 1..Len(series) |-> TRUE],
                      "Unknown type")

\* PolarsCSVValidator._validate_type_vectorized on non-missing string values
validate_type_vectorized(series, indices, column, expected_type) ==
    IF expected_type = "integer" THEN validate_integer_vectorized(series, indices, column)
    ELSE IF expected_type = "float" THEN validate_float_vectorized(series, indices, column)
    ELSE IF expected_type = "boolean" THEN validate_boolean_vectorized(series, indices, column)
    ELSE IF expected_type = "date_string" THEN validate_date_string_vectorized(series, indices, column)
    ELSE IF expected_type = "numeric_string" THEN validate_numeric_string_vectorized(series, indices, column)
    ELSE IF expected_type = "datetime" THEN validate_datetime_vectorized(series, indices, column)
    ELSE <<>>

\* col_series.is_null() | (col_series.str.strip() == "") on a Utf8 series
MissingMask(values) ==
    [i \in 1..Len(values) |-> IsNull(values[i]) \/ str_strip(Val(values[i])) = <<>>]

\* positions counted within the filtered series instead of the column
FilteredPositions(missing_mask) == Positions(Len(arg_false(missing_mask)))

\* missing_mask.arg_false(): positions of the non-missing values
NonMissingIndices(missing_mask) == arg_false(missing_mask)

\* "row": int(idx + 2)
MissingCells(missing_indices, column) ==
    [k \in 1..Len(missing_indices) |->
        Cell(missing_indices[k] + 2, column, <<>>, "Missing value")]

\* a column validator that checks the type of every value that is not null,
\* the whitespace-only values included
validate_column_unfiltered(series, column, expected_type) ==
    IF series.dtype # "Utf8"
    THEN Raised("invalid series dtype: expected Utf8")
    ELSE LET missing_mask == MissingMask(series.values)
             missing == MissingCells(arg_true(missing_mask), column)
             null_mask == [i \in 1..Len(series.values) |-> IsNull(series.values[i])]
             non_null_cells == filter(series.values, [i \in 1..Len(null_mask) |-> ~null_mask[i]])
             non_null_series == [i \in 1..Len(non_null_cells) |-> Val(non_null_cells[i])]
         IN  Ok(missing \o validate_type_vectorized(non_null_series, arg_false(null_mask),
                                                   column, expected_type))

\* PolarsCSVValidator._validate_column_vectorized: the records of the column,
\* or the exception of the .str namespace on a column that is not Utf8
validate_column_vectorized(series, column, expected_type) ==
    IF series.dtype # "Utf8"
    THEN Raised("invalid series dtype: expected Utf8")
    ELSE LET missing_mask == MissingMask(series.values)
             missing == MissingCells(arg_true(missing_mask), column)
             non_missing_cells == filter(series.values, [i \in 1..Len(missing_mask) |-> ~missing_mask[i]])
             non_missing_series == [i \in 1..Len(non_missing_cells) |-> Val(non_missing_cells[i])]
             non_missing_indices == NonMissingIndices(missing_mask)
         IN  Ok(IF Len(non_missing_series) > 0
                THEN missing \o validate_type_vectorized(non_missing_series,
                                   non_missing_indices, column, expected_type)
                ELSE missing)

(***************************************************************************)
(* Validation aggregator.                                                  *)
(***************************************************************************)
\* a Counter that records each key once, whatever its number of occurrences
RECURSIVE CounterOfDistinct(_)
CounterOfDistinct(keys) ==
    IF keys = <<>> THEN <<>>
    ELSE LET rest == CounterOfDistinct(SubSeq(keys, 1, Len(keys) - 1))
             key == keys[Len(keys)]
         IN  IF \E k \in 1..Len(rest) : rest[k][1] = key
             THEN rest
             ELSE Append(rest, <<key, 1>>)

\* collections.Counter(keys): <<key, count>> pairs in first-occurrence order
RECURSIVE Counter(_)
Counter(keys) ==
    IF keys = <<>> THEN <<>>
    ELSE LET rest == Counter(SubSeq(keys, 1, Len(keys) - 1))
             key == keys[Len(keys)]
         IN  IF \E k \in 1..Len(rest) : rest[k][1] = key
             THEN [k \in 1..Len(rest) |->
                     IF rest[k][1] = key THEN <<key, rest[k][2] + 1>> ELSE rest[k]]
             ELSE Append(rest, <<key, 1>>)

\* the last key holding the highest count
most_common_last(counter) ==
    counter[CHOOSE k \in 1..Len(counter) :
                /\ \A j \in 1..Len(counter) : counter[j][2] <= counter[k][2]
                /\ \A j \in (k + 1)..Len(counter) : counter[j][2] < counter[k][2]][1]

\* Counter.most_common(1)[0][0]: the first key holding the highest count
most_common(counter) ==
    counter[CHOOSE k \in 1..Len(counter) :
                /\ \A j \in 1..Len(counter) : counter[j][2] <= counter[k][2]
                /\ \A j \in 1..(k - 1) : counter[j][2] < counter[k][2]][1]

\* a summary that counts every column with errors once
generate_validation_summary_of_columns(invalid_cells) ==
    IF invalid_cells = <<>>
    THEN [status |-> "valid", message |-> "No validation errors found"]
    ELSE LET error_counts == Counter([k \in 1..Len(invalid_cells) |-> invalid_cells[k].error])
             column_counts == CounterOfDistinct([k \in 1..Len(invalid_cells) |-> invalid_cells[k].column])
         IN  [status |-> "invalid",
              total_errors |-> Len(invalid_cells),
              error_types |-> error_counts,
              columns_with_errors |-> column_counts,
              most_common_error |-> most_common(error_counts)]

\* PolarsCSVValidator._generate_validation_summary
generate_validation_summary(invalid_cells) ==
    IF invalid_cells = <<>>
    THEN [status |-> "valid", message |-> "No validation errors found"]
    ELSE LET error_counts == Counter([k \in 1..Len(invalid_cells) |-> invalid_cells[k].error])
             column_counts == Counter([k \in 1..Len(invalid_cells) |-> invalid_cells[k].column])
         IN  [status |-> "invalid",
              total_errors |-> Len(invalid_cells),
              error_types |-> error_counts,
              columns_with_errors |-> column_counts,
              most_common_error |-> most_common(error_counts)]

NoneTypes == [is_none |-> TRUE]
Given(types) == [is_none |-> FALSE, types |-> types]

\* the column loop of validate_dataframe from column k on: all_invalid_cells,
\* or the first exception a column raises
RECURSIVE ValidateColumns(_, _, _, _)
ValidateColumns(frame, types, k, all_invalid_cells) ==
    IF k > Len(frame) THEN Ok(all_invalid_cells)
    ELSE IF frame[k].name \notin DOMAIN types
         THEN ValidateColumns(frame, types, k + 1, all_invalid_cells)
         ELSE LET invalid_cells ==
                      validate_column_vectorized(frame[k], frame[k].name, types[frame[k].name])
              IN  IF IsRaised(invalid_cells) THEN invalid_cells
                  ELSE ValidateColumns(frame, types, k + 1,
                                       all_invalid_cells \o invalid_cells.ok)

FrameRows(frame) == IF frame = <<>> THEN 0 ELSE Len(frame[1].values)

\* a validate_dataframe whose error report keeps the records collected from
\* the columns before the one that raised
validate_dataframe_keeping(frame, given_types) ==
    LET types == IF given_types.is_none
                 THEN infer_column_types_vectorized(frame)
                 ELSE given_types.types
        all_invalid_cells == ValidateColumns(frame, types, 1, <<>>)
        done == CHOOSE n \in 0..Len(frame) :
                    /\ ~IsRaised(ValidateColumns(SubSeq(frame, 1, n), types, 1, <<>>))
                    /\ \A m \in (n + 1)..Len(frame) :
                          IsRaised(ValidateColumns(SubSeq(frame, 1, m), types, 1, <<>>))
        collected == ValidateColumns(SubSeq(frame, 1, done), types, 1, <<>>).ok
    IN  IF IsRaised(all_invalid_cells)
        THEN [error |-> <<"Validation failed: ", all_invalid_cells.raised>>,
              invalid_count |-> Len(collected),
              invalid_cells |-> collected]
        ELSE [total_rows |-> FrameRows(frame),
              total_columns |-> Len(frame),
              invalid_count |-> Len(all_invalid_cells.ok),
              invalid_cells |-> all_invalid_cells.ok,
              validation_summary |-> generate_validation_summary(all_invalid_cells.ok)]

\* PolarsCSVValidator.validate_dataframe
validate_dataframe(frame, given_types) ==
    LET types == IF given_types.is_none
                 THEN infer_column_types_vectorized(frame)
                 ELSE given_types.types
        all_invalid_cells == ValidateColumns(frame, types, 1, <<>>)
    IN  IF IsRaised(all_invalid_cells)
        THEN [error |-> <<"Validation failed: ", all_invalid_cells.raised>>,
              invalid_count |-> 0,
              invalid_cells |-> <<>>]
        ELSE [total_rows |-> FrameRows(frame),
              total_columns |-> Len(frame),
              invalid_count |-> Len(all_invalid_cells.ok),
              invalid_cells |-> all_invalid_cells.ok,
              validation_summary |-> generate_validation_summary(all_invalid_cells.ok)]

(***************************************************************************)
(* Inputs: the strings and tables the operations are applied to.           *)
(***************************************************************************)
Abc == <<"a", "b", "c">>
Blank == <<" ", " ", " ">>
Thousand == <<"1", ",", "0", "0", "0">>
OnePointFive == <<"1", ".", "5">>
IsoDate == <<"2", "0", "2", "3", "-", "0", "1", "-", "0", "1">>
TrueUpper == <<"T", "R", "U", "E">>
Seven == <<"7">>
One == <<"1">>
UsDate == <<"0", "1", "/", "0", "2", "/", "2", "0", "2", "3">>

SemanticTypes ==
    {"integer", "float", "boolean", "date_string", "numeric_string",
     "datetime", "categorical", "text"}

FullCells == {Null, Some(Blank), Some(Abc), Some(Thousand), Some(OnePointFive),
              Some(IsoDate), Some(TrueUpper), Some(One), Some(UsDate)}
WideCells == {Null, Some(Abc)}
IntCells == {Null, Some(Seven)}
DateCells == {Null, Some(IsoDate)}
ColumnNames == <<"a", "b", "c", "d">>

Series(dtype, values) == [dtype |-> dtype, values |-> values]
Named(name, series) == [name |-> name, dtype |-> series.dtype, values |-> series.values]

\* one-column tables of strings over the full vocabulary
OneColumnFrames ==
    UNION { { <<Named("a", Series("Utf8", v))>> : v \in [1..n -> FullCells] } : n \in 0..MaxRows }

\* one-column tables of native dates
DateFrames ==
    UNION { { <<Named("a", Series("Date", v))>> : v \in [1..n -> DateCells] } : n \in 0..MaxRows }

WideColumns(n) ==
    { Series("Utf8", v) : v \in [1..n -> WideCells] }
        \cup { Series("Int64", v) : v \in [1..n -> IntCells] }

\* tables of up to MaxCols string and integer columns
WideFrames ==
    UNION { { [k \in 1..c |-> Named(ColumnNames[k], cols[k])] : cols \in [1..c -> WideColumns(n)] }
            : <<c, n>> \in (1..MaxCols) \X (0..WideRows) }

Frames == OneColumnFrames \cup DateFrames \cup WideFrames

\* expected_types arguments: None, or one type for a subset of the columns
ExpectedTypeChoices(frame) ==
    {NoneTypes} \cup
    { Given([name \in S |-> t]) : <<S, t>> \in (SUBSET Names(frame)) \X SemanticTypes }

(***************************************************************************)
(* Specification Spec: validate_dataframe applied to a table.              *)
(***************************************************************************)
NoReport == [status |-> "pending"]
NoSeries == Series("Null", <<>>)

InitOthersOfValidate ==
    /\ col_series = NoSeries /\ inferred = "pending" /\ meta_inferred = Ok("pending")
    /\ fs = <<>> /\ calls = <<>> /\ file_paths = <<>> /\ metadata = <<>>

Init ==
    /\ df \in Frames
    /\ expected_types = NoneTypes
    /\ report = NoReport
    /\ InitOthersOfValidate

ValidateDataframe ==
    /\ report = NoReport
    /\ \E given \in ExpectedTypeChoices(df) :
          /\ expected_types' = given
          /\ report' = validate_dataframe(df, given)
    /\ UNCHANGED <<df, col_series, inferred, meta_inferred, fs, calls, file_paths, metadata>>

Next == ValidateDataframe

Spec == Init /\ [][Next]_vars

(***************************************************************************)
(* Specification SpecInfer: the two inferrers applied to one column.  A    *)
(* string column is two runs of equal cells, so that thresholds are met    *)
(* exactly (3 of 5, 4 of 5) and low-cardinality columns (11 equal values)  *)
(* occur.                                                                  *)
(***************************************************************************)
RunCells == {Null, Some(<<>>), Some(Blank), Some(Abc), Some(Thousand), Some(IsoDate)}
TypedDtypes == {"Int64", "Float64", "Boolean", "Date", "Datetime", "Time", "Null"}

Run(cell, n) == [i \in 1..n |-> cell]

InferSeries ==
    { Series("Utf8", Run(r[1], r[2]) \o Run(r[3], r[4])) :
        r \in RunCells \X (0..MaxRun) \X RunCells \X (0..MaxRun) }
    \cup { Series(d, Run(Null, r[1]) \o Run(Some(Seven), r[2])) :
        <<d, r>> \in TypedDtypes \X ((0..1) \X (0..1)) }

InitInfer ==
    /\ col_series \in InferSeries
    /\ inferred = "pending"
    /\ meta_inferred = Ok("pending")
    /\ df = <<>> /\ expected_types = NoneTypes /\ report = NoReport
    /\ fs = <<>> /\ calls = <<>> /\ file_paths = <<>> /\ metadata = <<>>

\* _infer_column_types_vectorized on the column
InferColumnType ==
    /\ inferred = "pending"
    /\ inferred' = infer_column_types_vectorized(<<Named("a", col_series)>>)["a"]
    /\ UNCHANGED <<df, expected_types, report, col_series, meta_inferred,
                   fs, calls, file_paths, metadata>>

\* the type detection of analyze_csv_metadata on the column
AnalyzeColumnType ==
    /\ meta_inferred = Ok("pending")
    /\ meta_inferred' = analyzer_infer(col_series)
    /\ UNCHANGED <<df, expected_types, report, col_series, inferred,
                   fs, calls, file_paths, metadata>>

NextInfer == InferColumnType \/ AnalyzeColumnType

SpecInfer == InitInfer /\ [][NextInfer]_vars

(***************************************************************************)
(* Specification SpecSample: _infer_column_types_vectorized on a table of  *)
(* two string columns that hold more non-null values than the inferrer     *)
(* samples.  A column is some nulls, SAMPLE_ROWS non-null values of which  *)
(* 60% or just under 60% are dates, and a tail of further values.          *)
(***************************************************************************)
TailCells == {Some(Abc), Some(IsoDate)}
DateShares == {(6 * SAMPLE_ROWS) \div 10 - 1, (6 * SAMPLE_ROWS) \div 10}

SampledColumn(nulls, dates, tail) ==
    Series("Utf8", Run(Null, nulls) \o Run(Some(IsoDate), dates)
                       \o Run(Some(Abc), SAMPLE_ROWS - dates) \o tail)

SampleFrames ==
    UNION { { <<Named("a", SampledColumn(z, d[1], tails[1])),
                Named("b", SampledColumn(z, d[2], tails[2]))>> :
                  <<z, d, tails>> \in (0..1) \X (DateShares \X DateShares)
                                      \X ([1..t -> TailCells] \X [1..t -> TailCells]) }
            : t \in 0..MaxTail }

NoTypes == [status |-> "pending"]

InitSample ==
    /\ df \in SampleFrames
    /\ inferred = NoTypes
    /\ expected_types = NoneTypes /\ report = NoReport
    /\ col_series = NoSeries /\ meta_inferred = Ok("pending")
    /\ fs = <<>> /\ calls = <<>> /\ file_paths = <<>> /\ metadata = <<>>

\* _infer_column_types_vectorized(df)
InferColumnTypes ==
    /\ inferred = NoTypes
    /\ inferred' = infer_column_types_vectorized(df)
    /\ UNCHANGED <<df, expected_types, report, col_series, meta_inferred,
                   fs, calls, file_paths, metadata>>

NextSample == InferColumnTypes

SpecSample == InitSample /\ [][NextSample]_vars

(***************************************************************************)
(* Files.  A path is its sequence of components.  A file is missing,       *)
(* malformed (pl.read_csv raises on it) or CSV text: named columns of raw  *)
(* fields, the empty field being <<>>.                                     *)
(***************************************************************************)
MissingFile == [kind |-> "missing"]
MalformedFile == [kind |-> "malformed"]
CsvFile(columns) == [kind |-> "csv", columns |-> columns]
RawColumn(name, fields) == [name |-> name, fields |-> fields]

\* schema inference of pl.read_csv for one column, from its non-empty fields
\* (a column of a file of the model holds one kind of field throughout the
\* rows that are read, so the rows of infer_schema_length decide as all do)
CsvIsInt(s) ==
    LET d == IF s # <<>> /\ Head(s) = "-" THEN Tail(s) ELSE s
    IN  d # <<>> /\ IsDigits(d)

CsvIsFloat(s) == ParsesFloat(s) /\ \E i \in 1..Len(s) : s[i] \in {".", "e", "E"}

CsvIsBool(s) == to_lowercase(s) \in {<<"t", "r", "u", "e">>, <<"f", "a", "l", "s", "e">>}

CsvDtype(fields) ==
    LET filled == SelectSeq(fields, LAMBDA f : f # <<>>)
        all(P(_)) == \A i \in 1..Len(filled) : P(filled[i])
        IntOrFloat(f) == CsvIsInt(f) \/ CsvIsFloat(f)
    IN  IF filled = <<>> THEN "Utf8"
        ELSE IF all(CsvIsInt) THEN "Int64"
        ELSE IF all(IntOrFloat) THEN "Float64"
        ELSE IF all(CsvIsBool) THEN "Boolean"
        ELSE "Utf8"

\* the table pl.read_csv builds from the first n_rows rows of CSV text
ParseCsv(columns, n_rows) ==
    [k \in 1..Len(columns) |->
        LET fields == head(columns[k].fields, n_rows)
        IN  [name |-> columns[k].name,
             dtype |-> CsvDtype(fields),
             values |-> [i \in 1..Len(fields) |->
                            IF fields[i] = <<>> THEN Null ELSE Some(fields[i])]]]

CsvRows(columns) == IF columns = <<>> THEN 0 ELSE Len(columns[1].fields)

\* a read that ignores n_rows
read_csv_every_row(file, n_rows) ==
    IF file.kind = "missing" THEN Raised("No such file or directory")
    ELSE IF file.kind = "malformed" THEN Raised("could not parse CSV")
    ELSE Ok(ParseCsv(file.columns, CsvRows(file.columns)))

\* pl.read_csv(file_path, n_rows=n_rows): the table, or the exception
read_csv_n_rows(file, n_rows) ==
    IF file.kind = "missing" THEN Raised("No such file or directory")
    ELSE IF file.kind = "malformed" THEN Raised("could not parse CSV")
    ELSE Ok(ParseCsv(file.columns, n_rows))

\* pl.read_csv(file_path): every row is read
read_csv(file) ==
    IF file.kind = "missing" THEN Raised("No such file or directory")
    ELSE IF file.kind = "malformed" THEN Raised("could not parse CSV")
    ELSE Ok(ParseCsv(file.columns, CsvRows(file.columns)))

\* PolarsCSVValidator.validate_csv_file without its try/except
validate_csv_file_unguarded(file_path, given_types) ==
    LET frame == read_csv(fs[file_path])
    IN  IF IsRaised(frame) THEN frame
        ELSE Ok(validate_dataframe(frame.ok, given_types))

\* PolarsCSVValidator.validate_csv_file: Ok(report); no exception leaves it
validate_csv_file_method(file_path, given_types) ==
    LET frame == read_csv(fs[file_path])
    IN  IF IsRaised(frame)
        THEN Ok([file_path |-> file_path,
                 error |-> <<"Failed to read CSV: ", frame.raised>>,
                 invalid_count |-> 0,
                 invalid_cells |-> <<>>])
        ELSE Ok(validate_dataframe(frame.ok, given_types))

\* validate_csv_file on a validator that is shared between calls and keeps
\* all_invalid_cells from the call before
validate_csv_file_shared(file_path, given_types) ==
    LET result == validate_csv_file_method(file_path, given_types)
        before == IF calls = <<>> \/ IsRaised(calls[Len(calls)].outcome) THEN <<>>
                  ELSE calls[Len(calls)].outcome.ok.invalid_cells
        cells == before \o result.ok.invalid_cells
    IN  Ok([f \in DOMAIN result.ok \cup {"file_path"} |->
               IF f = "file_path" THEN file_path
               ELSE IF f = "invalid_cells" THEN cells
               ELSE IF f = "invalid_count" THEN Len(cells)
               ELSE result.ok[f]])

\* validate_csv_file (module level): a fresh validator per call, then
\* result["file_path"] = file_path
validate_csv_file(file_path, given_types) ==
    LET result == validate_csv_file_method(file_path, given_types)
    IN  IF IsRaised(result) THEN result
        ELSE Ok([f \in DOMAIN result.ok \cup {"file_path"} |->
                    IF f = "file_path" THEN file_path ELSE result.ok[f]])

(***************************************************************************)
(* Specification SpecCalls: validate_csv_file called on files that other   *)
(* requests may replace between the calls.                                 *)
(***************************************************************************)
UploadA == <<"uploads", "a.csv">>
UploadB == <<"uploads", "b.csv">>
Paths == {UploadA, UploadB}

\* a,b / abc,7 / ,12 / "1,000",3 : a string column with an empty field and a
\* column of integers
MixedCsv ==
    CsvFile(<< RawColumn("a", <<Abc, <<>>, Thousand>>),
               RawColumn("b", <<Seven, <<"1", "2">>, <<"3">>>>) >>)
\* a / abc / (empty) / "1,000"
StringsCsv == CsvFile(<< RawColumn("a", <<Abc, <<>>, Thousand>>) >>)
\* a / 7 / 12
IntegersCsv == CsvFile(<< RawColumn("a", <<Seven, <<"1", "2">>>>) >>)
\* a (header only)
HeaderOnlyCsv == CsvFile(<< RawColumn("a", <<>>) >>)
\* nine rows: seven texts with two empty fields between them, and two
\* integers among empty fields
PreviewCsv ==
    CsvFile(<< RawColumn("a", <<Abc, <<>>, Thousand, Abc, Blank, Seven, <<>>, Abc, One>>),
               RawColumn("b", <<<<>>, <<>>, Seven, <<>>, <<>>, <<>>, <<>>, <<"1", "2">>, <<>>>>) >>)

CallFiles == {MissingFile, MalformedFile, StringsCsv, IntegersCsv}
CallTypes == {NoneTypes, Given([name \in {"a"} |-> "integer"])}

InitCalls ==
    /\ fs \in [Paths -> CallFiles]
    /\ calls = <<>>
    /\ df = <<>> /\ expected_types = NoneTypes /\ report = NoReport
    /\ col_series = NoSeries /\ inferred = "pending" /\ meta_inferred = Ok("pending")
    /\ file_paths = <<>> /\ metadata = <<>>

\* one request: validate_csv_file(file_path, expected_types)
ValidateCsvFile ==
    /\ Len(calls) < MaxCalls
    /\ \E file_path \in Paths, given \in CallTypes :
          calls' = Append(calls, [file_path |-> file_path,
                                  file |-> fs[file_path],
                                  expected_types |-> given,
                                  outcome |-> validate_csv_file(file_path, given)])
    /\ UNCHANGED <<df, expected_types, report, col_series, inferred, meta_inferred,
                   fs, file_paths, metadata>>

\* an upload or a deletion replaces a file
WriteFile ==
    /\ \E file_path \in Paths, file \in CallFiles :
          /\ fs[file_path] # file
          /\ fs' = [fs EXCEPT ![file_path] = file]
    /\ UNCHANGED <<df, expected_types, report, col_series, inferred, meta_inferred,
                   calls, file_paths, metadata>>

NextCalls == ValidateCsvFile \/ WriteFile

SpecCalls == InitCalls /\ [][NextCalls]_vars

(***************************************************************************)
(* Metadata sampler: analyze_csv_metadata.                                 *)
(***************************************************************************)
META_ROWS == 1000
PREVIEW_VALUES == 5
MEGABYTE == 1048576

\* os.path.basename(file_path)
basename(file_path) == file_path[Len(file_path)]

\* the characters of the fields, summed by halves
RECURSIVE SumLen(_)
SumLen(fields) ==
    IF fields = <<>> THEN 0
    ELSE IF Len(fields) = 1 THEN Len(fields[1])
    ELSE LET half == Len(fields) \div 2
         IN  SumLen(SubSeq(fields, 1, half)) + SumLen(SubSeq(fields, half + 1, Len(fields)))

RECURSIVE SumFields(_)
SumFields(columns) ==
    IF columns = <<>> THEN 0 ELSE SumLen(Head(columns).fields) + SumFields(Tail(columns))

\* os.path.getsize(file_path): one-character column names, a separator or a
\* line end after every field
getsize(file) ==
    Len(file.columns) * (CsvRows(file.columns) + 1) * 2 + SumFields(file.columns)

\* sum(1 for _ in f): the header line and one line per row
CountLines(file) == CsvRows(file.columns) + 1

\* the first values of the column, nulls included
sample_values_with_nulls(col_data) == head(col_data, PREVIEW_VALUES)

\* col_data.drop_nulls().head(5).to_list()
sample_values(col_data) == head(drop_nulls(col_data), PREVIEW_VALUES)

\* the first exception of the per-column type detection, if any
FirstRaised(frame) ==
    IF \E k \in 1..Len(frame) : IsRaised(analyzer_infer(frame[k]))
    THEN analyzer_infer(frame[CHOOSE k \in 1..Len(frame) :
            /\ IsRaised(analyzer_infer(frame[k]))
            /\ \A j \in 1..(k - 1) : ~IsRaised(analyzer_infer(frame[j]))])
    ELSE Ok("none")

\* an error entry that also carries what was computed before the failure
ErrorEntryWithCounts(file_path, message) ==
    [filename |-> basename(file_path), full_path |-> file_path, error |-> message,
     rows |-> 0, columns |-> <<>>]

\* the entry of the except branch
ErrorEntry(file_path, message) ==
    [filename |-> basename(file_path), full_path |-> file_path, error |-> message]

\* one iteration of the loop of analyze_csv_metadata: the entry appended for
\* file_path.  file_size_mb is in hundredths of a megabyte (round(.., 2)).
AnalyzeFile(file_path) ==
    LET df_sample == read_csv_n_rows(fs[file_path], META_ROWS)
    IN  IF IsRaised(df_sample) THEN ErrorEntry(file_path, df_sample.raised)
        ELSE IF IsRaised(FirstRaised(df_sample.ok))
             THEN ErrorEntry(file_path, FirstRaised(df_sample.ok).raised)
             ELSE LET frame == df_sample.ok
                      file_size == getsize(fs[file_path])
                  IN  [filename |-> basename(file_path),
                       full_path |-> file_path,
                       rows |-> CountLines(fs[file_path]) - 1,
                       columns |-> [k \in 1..Len(frame) |-> frame[k].name],
                       file_size_bytes |-> file_size,
                       file_size_mb |-> (200 * file_size + MEGABYTE) \div (2 * MEGABYTE),
                       inferred_types |->
                           [name \in Names(frame) |-> analyzer_infer(Column(frame, name)).ok],
                       missing_values |->
                           [name \in Names(frame) |->
                               Len(SelectSeq(Column(frame, name).values, IsNull))],
                       sample_data |->
                           [name \in Names(frame) |->
                               sample_values(Column(frame, name).values)]]

\* a loop that lets the exception of a file end the batch
RECURSIVE AnalyzeFilesAborting(_, _, _)
AnalyzeFilesAborting(paths, k, files) ==
    IF k > Len(paths) THEN files
    ELSE IF "error" \in DOMAIN AnalyzeFile(paths[k]) THEN Append(files, AnalyzeFile(paths[k]))
         ELSE AnalyzeFilesAborting(paths, k + 1, Append(files, AnalyzeFile(paths[k])))

\* the loop of analyze_csv_metadata from the k-th path on
RECURSIVE AnalyzeFiles(_, _, _)
AnalyzeFiles(paths, k, files) ==
    IF k > Len(paths) THEN files
    ELSE AnalyzeFiles(paths, k + 1, Append(files, AnalyzeFile(paths[k])))

\* analyze_csv_metadata(file_paths)
analyze_csv_metadata(paths) == [files |-> AnalyzeFiles(paths, 1, <<>>)]

(***************************************************************************)
(* Specification SpecMeta: analyze_csv_metadata on a batch of paths.       *)
(***************************************************************************)
MetaFiles == {MissingFile, MalformedFile, HeaderOnlyCsv, StringsCsv, MixedCsv, PreviewCsv}
Batches == UNION { [1..n -> Paths] : n \in 0..MaxBatch }
NoMetadata == [status |-> "pending"]

InitMeta ==
    /\ fs \in [Paths -> MetaFiles]
    /\ file_paths = <<>>
    /\ metadata = NoMetadata
    /\ df = <<>> /\ expected_types = NoneTypes /\ report = NoReport
    /\ col_series = NoSeries /\ inferred = "pending" /\ meta_inferred = Ok("pending")
    /\ calls = <<>>

\* one request: analyze_csv_metadata(batch)
AnalyzeCsvMetadata ==
    /\ metadata = NoMetadata
    /\ \E batch \in Batches :
          /\ file_paths' = batch
          /\ metadata' = analyze_csv_metadata(batch)
    /\ UNCHANGED <<df, expected_types, report, col_series, inferred, meta_inferred,
                   fs, calls>>

NextMeta == AnalyzeCsvMetadata

SpecMeta == InitMeta /\ [][NextMeta]_vars

(***************************************************************************)
(* Specification SpecLongFiles: analyze_csv_metadata on files of more than *)
(* META_ROWS rows.  Column a holds integers and column b empty fields in   *)
(* the first META_ROWS rows; the rows after them hold text in column a.    *)
(***************************************************************************)
LongCsv(first, tail) ==
    CsvFile(<< RawColumn("a", <<first>> \o Run(Seven, META_ROWS - 1) \o Run(Abc, tail)),
               RawColumn("b", Run(<<>>, META_ROWS + tail)) >>)

LongFiles == { LongCsv(first, tail) : <<first, tail>> \in {Seven, One} \X (0..MaxTail) }

InitLongFiles ==
    /\ fs \in [Paths -> LongFiles]
    /\ file_paths = <<>>
    /\ metadata = NoMetadata
    /\ df = <<>> /\ expected_types = NoneTypes /\ report = NoReport
    /\ col_series = NoSeries /\ inferred = "pending" /\ meta_inferred = Ok("pending")
    /\ calls = <<>>

NextLongFiles == AnalyzeCsvMetadata

SpecLongFiles == InitLongFiles /\ [][NextLongFiles]_vars

(***************************************************************************)
(* Properties of validate_dataframe (specification Spec).                  *)
(***************************************************************************)
Validated == report # NoReport
Failed(r) == "error" \in DOMAIN r

RECURSIVE SumCounts(_)
SumCounts(counter) ==
    IF counter = <<>> THEN 0
    ELSE counter[Len(counter)][2] + SumCounts(SubSeq(counter, 1, Len(counter) - 1))

\* the error_types table of a report; a report without one has no counts
ErrorTypes(r) ==
    IF "validation_summary" \in DOMAIN r /\ "error_types" \in DOMAIN r.validation_summary
    THEN r.validation_summary.error_types
    ELSE <<>>

\* C1: in every report, invalid_count equals the length of invalid_cells and
\* the sum of the per-error counts of the summary.
C1_InvalidCountConsistent ==
    Validated =>
        /\ report.invalid_count = Len(report.invalid_cells)
        /\ report.invalid_count = SumCounts(ErrorTypes(report))

C1_Witness ==
    /\ Validated
    /\ report.invalid_count = 3
    /\ Len(ErrorTypes(report)) = 2

\* the cell of the table a record points at, taking row = position + 2
CellAtRow(rec) == Column(df, rec.column).values[rec.row - 1]
IsMissingCell(c) == IsNull(c) \/ \A i \in 1..Len(Val(c)) : Val(c)[i] \in Whitespace

\* C2: every record carries row = i + 2 for the 0-based position i of its cell:
\* a missing-value record points at a missing cell, any other record at the
\* non-missing cell whose value it renders; the missing-value records of a
\* validated column are those of rows i + 2 of its missing cells, and no two
\* records of a column of one kind carry the same row.
C2_RowIsPositionPlusTwo ==
    Validated =>
        /\ \A k \in 1..Len(report.invalid_cells) :
              LET rec == report.invalid_cells[k]
              IN  /\ rec.row - 2 \in 0..(FrameRows(df) - 1)
                  /\ IF rec.error = "Missing value"
                     THEN IsMissingCell(CellAtRow(rec))
                     ELSE ~IsMissingCell(CellAtRow(rec)) /\ rec.value = Val(CellAtRow(rec))
        /\ \A j, k \in 1..Len(report.invalid_cells) :
              (/\ j # k
               /\ report.invalid_cells[j].column = report.invalid_cells[k].column
               /\ report.invalid_cells[j].error = report.invalid_cells[k].error)
                  => report.invalid_cells[j].row # report.invalid_cells[k].row
        /\ ~Failed(report) =>
              \A c \in 1..Len(df) : \A i \in 0..(FrameRows(df) - 1) :
                  (/\ expected_types.is_none \/ df[c].name \in DOMAIN expected_types.types
                   /\ IsMissingCell(df[c].values[i + 1]))
                      => \E k \in 1..Len(report.invalid_cells) :
                            report.invalid_cells[k] =
                                Cell(i + 2, df[c].name, <<>>, "Missing value")

C2_Witness ==
    /\ Validated
    /\ \E j, k \in 1..Len(report.invalid_cells) :
          /\ report.invalid_cells[j].error = "Missing value"
          /\ report.invalid_cells[j].row = 2
          /\ report.invalid_cells[k].error = "Expected integer"
          /\ report.invalid_cells[k].row = 3

\* the types the columns are validated against in the current call
TypesUsed ==
    IF expected_types.is_none THEN infer_column_types_vectorized(df) ELSE expected_types.types

RecordsAt(r, column, row) ==
    { k \in 1..Len(r.invalid_cells) :
        r.invalid_cells[k].column = column /\ r.invalid_cells[k].row = row }

\* C3: in every validated column, whatever its expected and storage type, a
\* null, empty or whitespace-only cell yields exactly one record, with error
\* "Missing value" and empty value.
C3_MissingCellsReported ==
    Validated =>
        \A c \in 1..Len(df) : \A i \in 1..FrameRows(df) :
            (df[c].name \in DOMAIN TypesUsed /\ IsMissingCell(df[c].values[i])) =>
                /\ Cardinality(RecordsAt(report, df[c].name, i + 1)) = 1
                /\ \A k \in RecordsAt(report, df[c].name, i + 1) :
                      /\ report.invalid_cells[k].error = "Missing value"
                      /\ report.invalid_cells[k].value = <<>>

(***************************************************************************)
(* Properties of type inference (specification SpecInfer).                 *)
(***************************************************************************)
Inferred == inferred # "pending"
AllMissing(values) == \A i \in 1..Len(values) : IsMissingCell(values[i])

\* the sample of the string inferrer: the first 1000 non-null values
Sample == head(drop_nulls(col_series.values), SAMPLE_ROWS)
DateCount == Cardinality({i \in 1..Len(Sample) : MatchesDate(Val(Sample[i]))})
NumericCount == Cardinality({i \in 1..Len(Sample) : ParsesFloat(Cleaned(Val(Sample[i])))})
ReachesDate == 10 * DateCount >= 6 * Len(Sample)
ReachesNumeric == 10 * NumericCount >= 8 * Len(Sample)
StringSampled == col_series.dtype = "Utf8" /\ Len(Sample) > 0

\* C7 as stated: every column with zero non-missing values, whatever its
\* storage, is inferred as text.
C7_AllMissingIsText ==
    (Inferred /\ AllMissing(col_series.values)) => inferred = "text"

\* C7: every string column with zero non-missing values (no rows, or only
\* null, empty and whitespace-only cells) is inferred as text.
C7_AllMissingStringIsText ==
    (Inferred /\ col_series.dtype = "Utf8" /\ AllMissing(col_series.values)) =>
        inferred = "text"

C7_Witness ==
    /\ Inferred
    /\ col_series.dtype = "Utf8"
    /\ Len(col_series.values) > 1
    /\ Len(Sample) = 0
    /\ inferred = "text"

\* C8: a string column with a non-empty sample is inferred as date_string
\* exactly when at least 60% of the sampled values match a date pattern, also
\* at exactly 60% and whatever share of the sample parses as a number.
C8_DateThreshold ==
    (Inferred /\ StringSampled) => (inferred = "date_string" <=> ReachesDate)

C8_Witness ==
    /\ Inferred /\ StringSampled
    /\ Len(Sample) = 5 /\ DateCount = 3 /\ NumericCount = 2
    /\ inferred = "date_string"

\* C9: a string column with a non-empty sample that does not reach the date
\* threshold is inferred as numeric_string exactly when at least 80% of the
\* sampled values parse as numbers once commas and spaces are removed, also
\* at exactly 80%.
C9_NumericThreshold ==
    (Inferred /\ StringSampled /\ ~ReachesDate) =>
        (inferred = "numeric_string" <=> ReachesNumeric)

C9_Witness ==
    /\ Inferred /\ StringSampled /\ ~ReachesDate
    /\ Len(Sample) = 5 /\ NumericCount = 4
    /\ inferred = "numeric_string"

DistinctCount == Cardinality({Sample[i] : i \in 1..Len(Sample)})
LowCardinality == 10 * DistinctCount < Len(drop_nulls(col_series.values)) /\ DistinctCount < 50

\* C10: a string column that reaches neither the date nor the numeric
\* threshold is inferred as categorical when distinct values / non-null count
\* < 0.1 and distinct count < 50, and as text otherwise, by the validator's
\* inferrer and in the metadata alike.
C10_CategoricalOrText ==
    (StringSampled /\ ~ReachesDate /\ ~ReachesNumeric) =>
        /\ Inferred =>
              inferred = IF LowCardinality THEN "categorical" ELSE "text"
        /\ meta_inferred # Ok("pending") =>
              meta_inferred = Ok(IF LowCardinality THEN "categorical" ELSE "text")

Unreadable(file) == file.kind \in {"missing", "malformed"}

\* C6: validate_csv_file never raises; for a missing or malformed file it
\* returns a report with error "Failed to read CSV: ...", invalid_count 0,
\* empty invalid_cells and the file_path.
C6_ReadFailureIsReported ==
    \A i \in 1..Len(calls) :
        /\ ~IsRaised(calls[i].outcome)
        /\ Unreadable(calls[i].file) =>
              /\ DOMAIN calls[i].outcome.ok = {"file_path", "error", "invalid_count", "invalid_cells"}
              /\ calls[i].outcome.ok.error[1] = "Failed to read CSV: "
              /\ calls[i].outcome.ok.invalid_count = 0
              /\ calls[i].outcome.ok.invalid_cells = <<>>
              /\ calls[i].outcome.ok.file_path = calls[i].file_path

C6_Witness ==
    /\ Len(calls) = 2
    /\ calls[1].file = MissingFile
    /\ calls[2].file = MalformedFile
    /\ ~IsRaised(calls[2].outcome)
    /\ calls[2].outcome.ok.error[1] = "Failed to read CSV: "

(***************************************************************************)
(* Properties of analyze_csv_metadata (specification SpecMeta).            *)
(***************************************************************************)
Analyzed == metadata # NoMetadata

\* C5: the metadata holds exactly one entry per requested path, in request
\* order; an unreadable or unparsable file yields an error entry, and the
\* files after it are still analysed.
C5_OneEntryPerPath ==
    Analyzed =>
        /\ Len(metadata.files) = Len(file_paths)
        /\ \A i \in 1..Len(file_paths) :
              LET entry == metadata.files[i]
                  file == fs[file_paths[i]]
              IN  /\ entry.full_path = file_paths[i]
                  /\ Unreadable(file) => "error" \in DOMAIN entry
                  /\ (~Unreadable(file) /\ CsvRows(file.columns) > 0) =>
                        /\ "error" \notin DOMAIN entry
                        /\ entry.rows = CsvRows(file.columns)

C5_Witness ==
    /\ Analyzed
    /\ Len(file_paths) = 2
    /\ Unreadable(fs[file_paths[1]])
    /\ "error" \in DOMAIN metadata.files[1]
    /\ "rows" \in DOMAIN metadata.files[2]

(***************************************************************************)
(* Properties of the storage-type mapping (specification SpecInfer).       *)
(***************************************************************************)
\* the type the storage of a column that is not a string column stands for
StorageType(dtype) ==
    IF dtype \in IntegerDtypes THEN "integer"
    ELSE IF dtype \in FloatDtypes THEN "float"
    ELSE IF dtype = "Boolean" THEN "boolean"
    ELSE "datetime"

\* C11: a column of integral, floating, boolean, date, datetime or time
\* storage is inferred as integer, float, boolean and datetime (date, datetime
\* and time alike), by the validator's inferrer and in the metadata.
C11_StorageMapping ==
    col_series.dtype \in IntegerDtypes \cup FloatDtypes \cup {"Boolean", "Date", "Datetime", "Time"} =>
        /\ Inferred => inferred = StorageType(col_series.dtype)
        /\ meta_inferred # Ok("pending") =>
              meta_inferred = Ok(StorageType(col_series.dtype))

(***************************************************************************)
(* Properties of the typed cell validators (specification Spec).           *)
(***************************************************************************)
\* the non-missing cells <<c, i>> of the columns validated with a type of types
CheckedCells(types) ==
    { p \in (1..Len(df)) \X (1..FrameRows(df)) :
        /\ df[p[1]].name \in DOMAIN TypesUsed
        /\ TypesUsed[df[p[1]].name] \in types
        /\ ~IsMissingCell(df[p[1]].values[p[2]]) }

\* the records of a column that are not missing-value records
TypeRecords(column) ==
    { k \in 1..Len(report.invalid_cells) :
        /\ report.invalid_cells[k].column = column
        /\ report.invalid_cells[k].error # "Missing value" }

\* In every report, a record at a non-missing cell of a column of one of the
\* types says the cell is Bad, with the Message of the type and the text of the
\* cell; in a report that holds records (no error entry), every Bad cell has
\* exactly one record, and the column has as many type records as Bad cells.
FlaggedExactlyWhen(types, Bad(_, _), Message(_)) ==
    Validated =>
        /\ \A p \in CheckedCells(types) :
              LET column == df[p[1]].name
                  value == Val(df[p[1]].values[p[2]])
                  recs == RecordsAt(report, column, p[2] + 1)
              IN  /\ \A k \in recs :
                        /\ Bad(TypesUsed[column], value)
                        /\ report.invalid_cells[k].error = Message(TypesUsed[column])
                        /\ report.invalid_cells[k].value = value
                  /\ (~Failed(report) /\ Bad(TypesUsed[column], value)) =>
                        Cardinality(recs) = 1
        /\ ~Failed(report) =>
              \A c \in 1..Len(df) :
                  (df[c].name \in DOMAIN TypesUsed /\ TypesUsed[df[c].name] \in types) =>
                      Cardinality(TypeRecords(df[c].name)) =
                          Cardinality({ p \in CheckedCells(types) :
                              p[1] = c /\ Bad(TypesUsed[df[c].name], Val(df[c].values[p[2]])) })

\* the text of a cell once commas and spaces are removed
WithoutSeparators(s) == SelectSeq(s, LAMBDA ch : ch \notin {",", " "})

NotANumber(type, s) ==
    IF type = "integer" THEN ~ParsesInt(WithoutSeparators(s))
    ELSE ~ParsesFloat(WithoutSeparators(s))

NumberMessage(type) ==
    IF type = "integer" THEN "Expected integer" ELSE "Expected number"

BooleanWords ==
    { <<"t", "r", "u", "e">>, <<"f", "a", "l", "s", "e">>, <<"1">>, <<"0">>,
      <<"y", "e", "s">>, <<"n", "o">>, <<"y">>, <<"n">> }

NotABoolean(type, s) == to_lowercase(s) \notin BooleanWords

BooleanMessage(type) == "Expected boolean (true/false, 1/0, yes/no)"

MatchesNoDatePattern(type, s) ==
    \A k \in 1..4 : ~MatchesPattern(s, date_patterns[k])

DateMessage(type) == "Invalid date format (expected YYYY-MM-DD, MM/DD/YYYY, etc.)"

IsDateCell(c) == ~IsNull(c) /\ ~MatchesNoDatePattern("date_string", Val(c))

NotADay(type, s) == ~ParsesYmd(s)

DatetimeMessage(type) == "Expected datetime"

TextMessage(type) == "no error"

NeverBad(type, s) == FALSE

\* C16: under expected type text or categorical every non-missing cell is
\* valid: the records of such a column are missing-value records only, however
\* many distinct values the column holds.
C16_TextNeverFlagged ==
    /\ FlaggedExactlyWhen({"text", "categorical"}, NeverBad, TextMessage)
    /\ Validated =>
          \A c \in 1..Len(df) :
              (df[c].name \in DOMAIN TypesUsed /\ TypesUsed[df[c].name] \in {"text", "categorical"}) =>
                  TypeRecords(df[c].name) = {}

\* three different texts and a blank cell validated as categorical: the only
\* record is the missing value
C16_Witness ==
    /\ df = <<Named("a", Series("Utf8", <<Some(Abc), Some(Blank), Some(Thousand)>>))>>
    /\ expected_types = Given([name \in {"a"} |-> "categorical"])
    /\ Validated /\ ~Failed(report)
    /\ report.invalid_cells = <<Cell(3, "a", <<>>, "Missing value")>>

(***************************************************************************)
(* Properties of the failure handling and of the order of the records      *)
(* (specification Spec).                                                   *)
(***************************************************************************)
\* the errors the validators name themselves
NamedErrors ==
    {"Missing value", "Expected integer", "Expected number", "Expected datetime",
     BooleanMessage("boolean"), DateMessage("date_string")}

\* a step of the validation of column c raises
StepRaises(c) ==
    /\ df[c].name \in DOMAIN TypesUsed
    /\ IsRaised(validate_column_vectorized(Series(df[c].dtype, df[c].values),
                                           df[c].name, TypesUsed[df[c].name]))

\* C17: when a step of the validation of a column raises, the missing-value
\* mask included, every non-missing cell of the column has a record whose
\* error is "Validation error: <cause>"; the column is never skipped.
C17_RaiseMarksEveryCell ==
    Validated =>
        \A c \in 1..Len(df) : \A i \in 1..FrameRows(df) :
            (StepRaises(c) /\ ~IsMissingCell(df[c].values[i])) =>
                \E k \in RecordsAt(report, df[c].name, i + 1) :
                    report.invalid_cells[k].error \notin NamedErrors

\* the position of a column name among the columns of the table
ColumnIndex(name) == CHOOSE c \in 1..Len(df) : df[c].name = name

\* C18: the records are ordered by column, in the order of the columns of the
\* table, and within one column by ascending row, also when one of two records
\* is a missing value and the other a type violation.
C18_RecordsOrdered ==
    Validated =>
        \A j, k \in 1..Len(report.invalid_cells) :
            j < k =>
                LET first == report.invalid_cells[j]
                    second == report.invalid_cells[k]
                IN  /\ ColumnIndex(first.column) <= ColumnIndex(second.column)
                    /\ first.column = second.column => first.row <= second.row

(***************************************************************************)
(* Properties of the validation summary (specification Spec).              *)
(***************************************************************************)
Summarised == Validated /\ ~Failed(report)

\* the number of records with an error, and the place of the first of them
ErrorCount(error) ==
    Cardinality({ k \in 1..Len(report.invalid_cells) : report.invalid_cells[k].error = error })

FirstRecord(error) ==
    CHOOSE k \in 1..Len(report.invalid_cells) :
        /\ report.invalid_cells[k].error = error
        /\ \A j \in 1..(k - 1) : report.invalid_cells[j].error # error

\* C19: most_common_error is an error of the records with the highest count,
\* and among the errors with that count the one whose first record comes first
\* in invalid_cells.
C19_MostCommonError ==
    (Summarised /\ report.invalid_cells # <<>>) =>
        LET most == report.validation_summary.most_common_error
        IN  /\ ErrorCount(most) > 0
            /\ \A k \in 1..Len(report.invalid_cells) :
                  LET other == report.invalid_cells[k].error
                  IN  /\ ErrorCount(other) <= ErrorCount(most)
                      /\ ErrorCount(other) = ErrorCount(most) => FirstRecord(most) <= k

\* two errors with the same count, the one of the first record being the
\* type error of the first column
C19_Witness ==
    /\ Summarised /\ report.invalid_cells # <<>>
    /\ report.validation_summary.most_common_error = "Expected integer"
    /\ report.invalid_cells[1].error = "Expected integer"
    /\ ErrorCount("Missing value") = ErrorCount("Expected integer")

RecordsOfColumn(column) ==
    Cardinality({ k \in 1..Len(report.invalid_cells) : report.invalid_cells[k].column = column })

\* C20: the summary has status "valid", with a message and no tables, exactly
\* when invalid_cells is empty; otherwise it has status "invalid", total_errors
\* equal to invalid_count, and one count per column with records, the counts
\* adding up to invalid_count.
C20_SummaryShape ==
    Summarised =>
        LET summary == report.validation_summary
        IN  /\ summary.status \in {"valid", "invalid"}
            /\ summary.status = "valid" <=> report.invalid_cells = <<>>
            /\ summary.status = "valid" =>
                  /\ DOMAIN summary = {"status", "message"}
                  /\ summary.message = "No validation errors found"
            /\ summary.status = "invalid" =>
                  /\ summary.total_errors = report.invalid_count
                  /\ SumCounts(summary.columns_with_errors) = report.invalid_count
                  /\ \A k \in 1..Len(summary.columns_with_errors) :
                        /\ summary.columns_with_errors[k][2] =
                              RecordsOfColumn(summary.columns_with_errors[k][1])
                        /\ \A j \in 1..(k - 1) :
                              summary.columns_with_errors[j][1] # summary.columns_with_errors[k][1]

\* three records in two columns
C20_Witness ==
    /\ Summarised
    /\ report.validation_summary.status = "invalid"
    /\ report.invalid_count = 3
    /\ report.validation_summary.columns_with_errors = << <<"a", 2>>, <<"b", 1>> >>

(***************************************************************************)
(* Properties of expected_types and of failing columns (specification      *)
(* Spec).                                                                  *)
(***************************************************************************)
\* the type a column is to be validated against when expected_types
\* overrides the inference column by column
OverrideType(c) ==
    IF ~expected_types.is_none /\ df[c].name \in DOMAIN expected_types.types
    THEN expected_types.types[df[c].name]
    ELSE infer_column_types_vectorized(df)[df[c].name]

RecordsOf(column) ==
    SelectSeq(report.invalid_cells, LAMBDA rec : rec.column = column)

\* C21: in a report that holds records, the records of every string column
\* are those of its validation against the type expected_types names for it,
\* and against its inferred type when expected_types does not name it.
C21_ExpectedTypesOverride ==
    (Validated /\ ~Failed(report)) =>
        \A c \in 1..Len(df) :
            df[c].dtype = "Utf8" =>
                RecordsOf(df[c].name) =
                    validate_column_vectorized(Series(df[c].dtype, df[c].values),
                                               df[c].name, OverrideType(c)).ok

(***************************************************************************)
(* Properties of the metadata entries (specification SpecMeta).            *)
(***************************************************************************)
InferenceFields == {"rows", "columns", "inferred_types", "missing_values", "sample_data"}

\* C22: the entry of a file that cannot be read or parsed, and of a file whose
\* analysis fails in the loop over its columns, carries the file name, the
\* path and an error message, and none of the inference fields; every other
\* entry carries all of them.
C22_ErrorEntryOnly ==
    Analyzed =>
        \A i \in 1..Len(metadata.files) :
            LET entry == metadata.files[i]
                file == fs[file_paths[i]]
            IN  /\ entry.filename = basename(file_paths[i])
                /\ Unreadable(file) => "error" \in DOMAIN entry
                /\ IF "error" \in DOMAIN entry
                   THEN DOMAIN entry = {"filename", "full_path", "error"}
                   ELSE InferenceFields \subseteq DOMAIN entry

\* a batch of a malformed file and of a file that is read but fails in the
\* loop over its columns
C22_Witness ==
    /\ Analyzed /\ Len(file_paths) = 2
    /\ fs[file_paths[1]] = MalformedFile
    /\ fs[file_paths[2]] = HeaderOnlyCsv
    /\ metadata.files[1].error = "could not parse CSV"
    /\ metadata.files[2].error = "division by zero"
    /\ DOMAIN metadata.files[2] \cap InferenceFields = {}

\* the non-empty fields of a column of a file, within the rows that are sampled
NonEmptyFields(file, name) ==
    LET column == file.columns[CHOOSE k \in 1..Len(file.columns) : file.columns[k].name = name]
    IN  SelectSeq(SubSeq(column.fields, 1, Min(META_ROWS, Len(column.fields))),
                  LAMBDA field : field # <<>>)

\* C23: in every entry without error, sample_data of a column holds the first
\* min(5, k) of the k values of the sampled rows that are not null, in file
\* order: never more than 5 values, never a null.
C23_SampleData ==
    Analyzed =>
        \A i \in 1..Len(metadata.files) :
            LET entry == metadata.files[i]
                file == fs[file_paths[i]]
            IN  "error" \notin DOMAIN entry =>
                    \A k \in 1..Len(entry.columns) :
                        LET name == entry.columns[k]
                            sample == entry.sample_data[name]
                            present == NonEmptyFields(file, name)
                        IN  /\ Len(sample) = Min(5, Len(present))
                            /\ \A j \in 1..Len(sample) : sample[j] = Some(present[j])

\* seven values with nulls between them give the first five; two values give two
C23_Witness ==
    /\ Analyzed /\ Len(file_paths) >= 1
    /\ fs[file_paths[1]] = PreviewCsv
    /\ metadata.files[1].sample_data["a"] =
          <<Some(Abc), Some(Thousand), Some(Abc), Some(Blank), Some(Seven)>>
    /\ metadata.files[1].sample_data["b"] = <<Some(Seven), Some(<<"1", "2">>)>>
    /\ metadata.files[1].missing_values["a"] = 2

(***************************************************************************)
(* Properties of columns that are not string columns and of failing        *)
(* columns (specification Spec).                                           *)
(***************************************************************************)
NativeColumn(c) == df[c].dtype # "Utf8" /\ df[c].name \in DOMAIN TypesUsed

\* C24: the validation of a table with a validated column of integer, float,
\* boolean or datetime storage succeeds, and the records of that column are one
\* missing-value record per null cell, in row order, and nothing else.
C24_NativeColumnsNullChecked ==
    Validated =>
        \A c \in 1..Len(df) :
            NativeColumn(c) =>
                /\ ~Failed(report)
                /\ RecordsOf(df[c].name) =
                      MissingCells(arg_true([i \in 1..Len(df[c].values) |-> IsNull(df[c].values[i])]),
                                   df[c].name)

\* C25: when a step fails for a column, the report still holds the records of
\* every other validated column, those before it and those after it.
C25_FailureContained ==
    Validated =>
        \A failing, c \in 1..Len(df) :
            (StepRaises(failing) /\ c # failing /\ df[c].dtype = "Utf8"
                /\ df[c].name \in DOMAIN TypesUsed) =>
                    RecordsOf(df[c].name) =
                        validate_column_vectorized(Series(df[c].dtype, df[c].values),
                                                   df[c].name, TypesUsed[df[c].name]).ok

(***************************************************************************)
(* Properties of the sample of the string inferrer (specification          *)
(* SpecSample).                                                            *)
(***************************************************************************)
TypesInferred == DOMAIN inferred # {"status"}

\* the first 1000 values of a column that are not null, in order
FirstNonNull(values) ==
    LET present == SelectSeq(values, LAMBDA c : c # Null)
    IN  [i \in 1..Min(1000, Len(present)) |-> present[i]]

\* C26: two string columns whose first 1000 non-null values are equal are
\* inferred as the same type, whatever follows these values.
C26_SampleDecides ==
    TypesInferred =>
        \A c, d \in 1..Len(df) :
            (df[c].dtype = "Utf8" /\ df[d].dtype = "Utf8"
                /\ FirstNonNull(df[c].values) = FirstNonNull(df[d].values)) =>
                    inferred[df[c].name] = inferred[df[d].name]

\* two columns that agree on 1000 non-null values, 60% of them dates, and
\* differ after them: one goes on with dates, the other with text
C26_Witness ==
    /\ TypesInferred
    /\ FirstNonNull(df[1].values) = FirstNonNull(df[2].values)
    /\ Len(df[1].values) = Len(FirstNonNull(df[1].values)) + 3
    /\ df[1].values[Len(df[1].values)] = Some(Abc)
    /\ df[1].values[Len(df[1].values) - 1] = Some(Abc)
    /\ df[2].values[Len(df[2].values)] = Some(IsoDate)
    /\ inferred["a"] = "date_string" /\ inferred["b"] = "date_string"

(***************************************************************************)
(* Properties of the sampled rows of the metadata (specification           *)
(* SpecLongFiles).                                                         *)
(***************************************************************************)
FirstRows(fields) == [i \in 1..Min(1000, Len(fields)) |-> fields[i]]

\* two files with the same header and the same first 1000 data rows
SameSampledRows(f, g) ==
    /\ Len(f.columns) = Len(g.columns)
    /\ \A k \in 1..Len(f.columns) :
          /\ f.columns[k].name = g.columns[k].name
          /\ FirstRows(f.columns[k].fields) = FirstRows(g.columns[k].fields)

C28_CellReportedOnce ==
    Validated =>
        \A j, k \in 1..Len(report.invalid_cells) :
            (/\ report.invalid_cells[j].row = report.invalid_cells[k].row
             /\ report.invalid_cells[j].column = report.invalid_cells[k].column) => j = k

\* a whitespace-only cell and a text in a column validated as integers: one
\* record each
C28_Witness ==
    /\ df = <<Named("a", Series("Utf8", <<Some(Blank), Some(Abc)>>))>>
    /\ expected_types = Given([name \in {"a"} |-> "integer"])
    /\ Validated /\ ~Failed(report)
    /\ report.invalid_cells =
          <<Cell(2, "a", <<>>, "Missing value"), Cell(3, "a", Abc, "Expected integer")>>

\* C29: when the validation of a column raises, the report is an error
\* message "Validation failed: ..." with invalid_count 0 and empty
\* invalid_cells and nothing else: the records of the columns validated before
\* are not in it, and its invalid_count is that of a table without violations.
C29_FailureDiscardsRecords ==
    Validated =>
        /\ (\E c \in 1..Len(df) : StepRaises(c)) =>
              /\ DOMAIN report = {"error", "invalid_count", "invalid_cells"}
              /\ report.error[1] = "Validation failed: "
              /\ report.invalid_count = 0
              /\ report.invalid_cells = <<>>
        /\ Failed(report) => \E c \in 1..Len(df) : StepRaises(c)

\* a string column with a missing cell, validated before the column that raises
C29_Witness ==
    /\ Validated /\ Failed(report)
    /\ Len(df) = 2
    /\ df[1].dtype = "Utf8" /\ df[1].name \in DOMAIN TypesUsed
    /\ \E i \in 1..FrameRows(df) : IsMissingCell(df[1].values[i])
    /\ StepRaises(2)
    /\ report.invalid_count = 0

(***************************************************************************)
(* Properties of the values the inferrer samples (specification SpecInfer).*)
(***************************************************************************)
\* the positions of a column that hold a whitespace-only string, and those
\* that hold a string with other characters
BlankPositions ==
    { i \in 1..Len(col_series.values) :
        col_series.values[i] # Null /\ IsMissingCell(col_series.values[i]) }

TextPositions ==
    { i \in 1..Len(col_series.values) : ~IsMissingCell(col_series.values[i]) }

SampledSize == Cardinality(BlankPositions) + Cardinality(TextPositions)

DatePositions ==
    { i \in TextPositions : MatchesNoDatePattern("date_string", Val(col_series.values[i])) = FALSE }

NumberPositions ==
    { i \in TextPositions : ~NotANumber("float", Val(col_series.values[i])) }

\* C30: only nulls are dropped before sampling.  A whitespace-only string of
\* a string column of at most 1000 non-null values counts in the size of the
\* sample and matches neither a date nor a number: the column is date_string
\* exactly when the dates are 60% of strings and blanks together, and otherwise
\* numeric_string exactly when the numbers are 80% of them.
C30_BlanksAreSampled ==
    (Inferred /\ col_series.dtype = "Utf8" /\ SampledSize \in 1..1000) =>
        /\ inferred = "date_string" <=> 10 * Cardinality(DatePositions) >= 6 * SampledSize
        /\ inferred = "numeric_string" <=>
              /\ 10 * Cardinality(DatePositions) < 6 * SampledSize
              /\ 10 * Cardinality(NumberPositions) >= 8 * SampledSize

\* three dates and three whitespace-only strings: half of the sample, text
C30_Witness ==
    /\ Inferred /\ col_series.dtype = "Utf8"
    /\ Cardinality(BlankPositions) = 3
    /\ Cardinality(DatePositions) = 3
    /\ Cardinality(TextPositions) = 3
    /\ inferred = "text"

====
